---- MODULE Spec2Model ----
(***************************************************************************)
(* Model of dbms/src/Storages/StorageURL.cpp: the URL table engine.        *)
(*                                                                         *)
(*   registerStorageURL          binds a table declaration to a storage    *)
(*   IStorageURLBase::read       opens a read session  (StorageURLSource)  *)
(*   IStorageURLBase::write      opens a write session                     *)
(*                               (StorageURLBlockOutputStream)             *)
(*                                                                         *)
(* The format codec (reader / writer) and the transport (read_buf /        *)
(* write_buf) are collaborators.  Every call the storage code makes into   *)
(* them is recorded, in program order, in the session's log, the way a     *)
(* counting stub codec would record it; a call into a collaborator either  *)
(* returns or throws, and a thrown exception leaves the handler at once    *)
(* (the file has no try/catch).                                            *)
(***************************************************************************)
EXTENDS Integers, Sequences, FiniteSets, TLC

VARIABLES
    decl,         \* the table declaration handed to the factory (args.engine_args on entry)
    engine_args,  \* args.engine_args as registerStorageURL leaves it
    evaluated,    \* indexes of the arguments handed to the constant evaluator, in order
    bind_error,   \* the exception registerStorageURL ended with, "none" when it returned
    storage,      \* the IStorageURLBase the factory created, NoStorage when none
    source,       \* read sessions:  session id -> StorageURLSource
    out_stream    \* write sessions: session id -> StorageURLBlockOutputStream

vars == <<decl, engine_args, evaluated, bind_error, storage, source, out_stream>>

\* ------------------------------------------------------------------ bounds
MaxBatches == 2      \* non-empty blocks a response can decode to
MaxPulls == 4        \* generate() calls made on one read session
MaxCalls == 4        \* writePrefix/write/writeSuffix calls made on one write session
MaxThrows == 2       \* exceptions the collaborators raise within one session
MaxArgs == 4         \* length of a table declaration's argument list
MaxStreams == 2      \* the num_streams hint of a read() call
MaxSteps == 2        \* handler calls made in all on the sessions of SpecSessions, SpecDrop
MaxLocatorSteps == 1 \* handler calls made in all on the sessions of SpecLocator

\* ----------------------------------------------------------------- helpers
Idx(log, e) == {i \in 1..Len(log) : log[i] = e}
Count(log, e) == Cardinality(Idx(log, e))
Ev(st, e) == [st EXCEPT !.log = Append(@, e)]

Ids == {1, 2}
Outcome == {"ok", "throw"}

\* ----------------------------------------------------------------- locators
\* The text of a string, as the pieces and separators a URI parser tells apart.
Text(str) ==
    CASE str = "http://example.test/data.csv" ->
             <<"http://", "example", ".", "test", "/", "data", ".", "csv">>
      [] str = "http://example.test/data.csv.gz" ->
             <<"http://", "example", ".", "test", "/", "data", ".", "csv", ".", "gz">>
      [] str = "http://example.test/data.csv.gz?v=1" ->
             <<"http://", "example", ".", "test", "/", "data", ".", "csv", ".", "gz",
               "?", "v", "=", "1">>
      [] str = "http://example.test/export?file=a.gz" ->
             <<"http://", "example", ".", "test", "/", "export", "?", "file", "=", "a",
               ".", "gz">>
      [] str = "http://blocked.test/data.csv.gz" ->
             <<"http://", "blocked", ".", "test", "/", "data", ".", "csv", ".", "gz">>
      [] OTHER -> <<str>>

\* Position of the first / last occurrence of a separator in a text, 0 when none.
FirstOf(text, sep) ==
    IF Idx(text, sep) = {} THEN 0
    ELSE CHOOSE i \in Idx(text, sep) : \A j \in Idx(text, sep) : i <= j
LastOf(text, sep) ==
    IF Idx(text, sep) = {} THEN 0
    ELSE CHOOSE i \in Idx(text, sep) : \A j \in Idx(text, sep) : i >= j

\* Poco::URI(const std::string &): scheme, authority, path and query of a text.
EmptyURI == [scheme |-> <<>>, authority |-> <<>>, path |-> <<>>, query |-> <<>>]
PocoURI(text) ==
    LET q == FirstOf(text, "?")
        front == IF q = 0 THEN text ELSE SubSeq(text, 1, q - 1)
        query == IF q = 0 THEN <<>> ELSE SubSeq(text, q + 1, Len(text))
        absolute == front # <<>> /\ front[1] = "http://"
        slash == FirstOf(front, "/")
    IN  IF ~absolute
        THEN [EmptyURI EXCEPT !.path = front, !.query = query]
        ELSE [scheme |-> <<front[1]>>,
              authority |-> SubSeq(front, 2, IF slash = 0 THEN Len(front) ELSE slash - 1),
              path |-> IF slash = 0 THEN <<>> ELSE SubSeq(front, slash, Len(front)),
              query |-> query]

\* Poco::URI::getPath and Poco::URI::toString.
getPath(uri) == uri.path
toString(uri) ==
    uri.scheme \o uri.authority \o uri.path
    \o (IF uri.query = <<>> THEN <<>> ELSE <<"?">> \o uri.query)

\* Poco::URI::addQueryParameter(param, value).
addQueryParameter(uri, param, value) ==
    [uri EXCEPT !.query = (IF @ = <<>> THEN <<>> ELSE @ \o <<"&">>) \o <<param, "=", value>>]

\* chooseCompressionMethod(path, hint): with the hint "auto" the method is
\* looked up from what follows the last '.' of the text it is given, "none"
\* when that is no known extension; any other hint is the method.
Extension(text) ==
    IF LastOf(text, ".") = 0 THEN <<>> ELSE SubSeq(text, LastOf(text, ".") + 1, Len(text))
chooseCompressionMethod(text, hint) ==
    IF hint = "auto"
    THEN IF Extension(text) = <<"gz">> THEN "gzip"
         ELSE IF Extension(text) = <<"br">> THEN "brotli"
         ELSE "none"
    ELSE hint

\* ------------------------------------------------------------------ blocks
\* The columns the query asks for (sample_block); y has a default expression.
Columns == {"x", "y"}
EmptyBlock == <<>>
\* What the format codec can decode from a response: a block without y, a
\* block with both columns.
BlockSet == {("x" :> "x1"), ("x" :> "x2") @@ ("y" :> "y2")}
Responses == UNION {[1..n -> BlockSet] : n \in 0..MaxBatches}
DefaultValue(c) == IF c = "y" THEN "default(y)" ELSE "default(x)"

\* AddingDefaultsBlockInputStream::read on the block of the stream below it:
\* the end-of-stream block is passed on, any other block gets the columns it
\* lacks from their defaults and keeps the ones it has.
AddingDefaults(block) ==
    IF block = EmptyBlock THEN block
    ELSE [c \in Columns |-> IF c \in DOMAIN block THEN block[c] ELSE DefaultValue(c)]

\* ------------------------------------------------------------ read session
\* StorageURLSource before IStorageURLBase::read has constructed it.
\* call: the IStorageURLBase::read call that made the source (its inputs, and
\* how many pipes it returned).  response, pending: the blocks the response
\* decodes to, and those not yet read.  returned: the chunks handed to the caller.
NoCall == [params |-> <<>>, num_streams |-> 0, pipes |-> 0]
NoSource ==
    [life |-> "absent", reader |-> "null", stages |-> <<>>, initialized |-> FALSE,
     read_buf |-> "none", uri |-> EmptyURI, compression_method |-> "", call |-> NoCall,
     response |-> <<>>, pending |-> <<>>, returned |-> <<>>, total |-> 0, log |-> <<>>]

\* The constructor with the format's input stream left unwrapped.
StorageURLSource_NoDefaults(uri, compression_method, response) ==
    [NoSource EXCEPT !.life = "alive", !.reader = "set", !.stages = <<"FormatInput">>,
                     !.read_buf = "open", !.uri = uri,
                     !.compression_method = compression_method, !.response = response,
                     !.pending = response, !.total = Len(response), !.log = <<"open">>]

\* The constructor: read_buf is opened on the request to uri under the
\* compression wrapper, reader is the format's input stream wrapped by
\* AddingDefaultsBlockInputStream; initialized = false.
\* response is what the format decodes from the body, block by block.
StorageURLSource(uri, compression_method, response) ==
    [NoSource EXCEPT !.life = "alive", !.reader = "set",
                     !.stages = <<"AddingDefaultsBlockInputStream", "FormatInput">>,
                     !.read_buf = "open", !.uri = uri,
                     !.compression_method = compression_method, !.response = response,
                     !.pending = response, !.total = Len(response), !.log = <<"open">>]

\* The block reader->read() yields: the next decoded block, the empty block at
\* the end, through the stages the reader is made of.
ReaderRead(st) ==
    LET raw == IF st.pending = <<>> THEN EmptyBlock ELSE Head(st.pending) IN
    IF st.stages # <<>> /\ st.stages[1] = "AddingDefaultsBlockInputStream"
    THEN AddingDefaults(raw)
    ELSE raw

\* if (!initialized) reader->readPrefix();  initialized = true;
\* Yields the state and whether control goes on to reader->read().
Initialize(st, pfx) ==
    IF st.initialized
    THEN [st |-> st, thrown |-> FALSE]
    ELSE IF pfx = "throw"
         THEN [st |-> Ev(Ev(st, "reader.readPrefix"), "throw"), thrown |-> TRUE]
         ELSE [st |-> [Ev(st, "reader.readPrefix") EXCEPT !.initialized = TRUE],
               thrown |-> FALSE]

\* Exhaust with the reader kept: reader.reset() forgotten.
Exhaust_NoReset(st, sfx) ==
    LET s1 == Ev(st, "reader.readSuffix") IN
    IF sfx = "throw" THEN Ev(s1, "throw") ELSE Ev(s1, "return:eos")

\* Exhaust with the end-of-stream hook skipped.
Exhaust_NoSuffix(st, sfx) ==
    Ev([Ev(st, "reader.reset") EXCEPT !.reader = "null"], "return:eos")

\* reader->readSuffix(); reader.reset(); return {};
Exhaust(st, sfx) ==
    LET s1 == Ev(st, "reader.readSuffix") IN
    IF sfx = "throw"
    THEN Ev(s1, "throw")
    ELSE Ev([Ev(s1, "reader.reset") EXCEPT !.reader = "null"], "return:eos")

\* if (auto block = reader->read()) return Chunk(...);  else the exhaustion path.
ReadBlock(st, rd, sfx) ==
    LET s1 == Ev(st, "reader.read") IN
    IF rd = "throw"
    THEN Ev(s1, "throw")
    ELSE IF ReaderRead(s1) # EmptyBlock
         THEN Ev([s1 EXCEPT !.pending = Tail(@), !.returned = Append(@, ReaderRead(s1))],
                 "return:chunk")
         ELSE Exhaust(s1, sfx)

\* Chunk StorageURLSource::generate()
generate(st, pfx, rd, sfx) ==
    LET s0 == Ev(st, "call:generate") IN
    IF s0.reader = "null"
    THEN Ev(s0, "return:eos")
    ELSE LET i == Initialize(s0, pfx) IN
         IF i.thrown THEN i.st ELSE ReadBlock(i.st, rd, sfx)

\* A destructor that lets go of read_buf only when the reader is already gone.
DestroySource_Leak(st) ==
    IF st.reader = "set"
    THEN [Ev(st, "~reader") EXCEPT !.life = "dropped", !.reader = "null"]
    ELSE [Ev(st, "~read_buf") EXCEPT !.life = "dropped", !.read_buf = "released"]

\* The implicit destructor: members go in reverse order of declaration,
\* reader (the codec, when still held) and then read_buf (the transport).
DestroySource(st) ==
    LET s1 == IF st.reader = "set" THEN Ev(st, "~reader") ELSE st IN
    [Ev(s1, "~read_buf") EXCEPT !.life = "dropped", !.reader = "null",
                                !.read_buf = "released"]

Pulls(st) == Count(st.log, "call:generate")
Throws(st) == Count(st.log, "throw")

\* ----------------------------------------------------------- write session
\* StorageURLBlockOutputStream before IStorageURLBase::write has constructed it.
NoStream ==
    [life |-> "absent", writer |-> "null", write_buf |-> "none", uri |-> EmptyURI,
     compression_method |-> "", log |-> <<>>]

\* The constructor: write_buf is the POST transport to uri under the
\* compression wrapper, writer is the output codec on top of it.
StorageURLBlockOutputStream(uri, compression_method) ==
    [NoStream EXCEPT !.life = "alive", !.writer = "set", !.write_buf = "open",
                     !.uri = uri, !.compression_method = compression_method,
                     !.log = <<"open">>]

\* write() that fires the start-of-stream hook itself before each block.
write_WithPrefix(st, o) ==
    LET s1 == Ev(Ev(Ev(st, "call:write"), "writer.writePrefix"), "writer.write") IN
    Ev(s1, IF o = "throw" THEN "throw" ELSE "return")

\* void write(const Block & block) { writer->write(block); }
write(st, o) ==
    LET s1 == Ev(Ev(st, "call:write"), "writer.write") IN
    Ev(s1, IF o = "throw" THEN "throw" ELSE "return")

\* void writePrefix() { writer->writePrefix(); }
writePrefix(st, o) ==
    LET s1 == Ev(Ev(st, "call:writePrefix"), "writer.writePrefix") IN
    Ev(s1, IF o = "throw" THEN "throw" ELSE "return")

\* writeSuffix() that finalizes the transport before flushing the codec.
writeSuffix_FinalizeFirst(st, k) ==
    LET s1 == Ev(Ev(st, "call:writeSuffix"), "writer.writeSuffix") IN
    IF k = 1 THEN Ev(s1, "throw")
    ELSE LET s2 == Ev(s1, "write_buf.finalize") IN
         IF k = 2 THEN Ev(s2, "throw")
         ELSE LET s3 == Ev([s2 EXCEPT !.write_buf = "finalized"], "writer.flush") IN
              Ev(s3, IF k = 3 THEN "throw" ELSE "return")

\* void writeSuffix() { writer->writeSuffix(); writer->flush(); write_buf->finalize(); }
\* k is the step that throws: 1, 2 or 3, and 0 when none does.
writeSuffix(st, k) ==
    LET s1 == Ev(Ev(st, "call:writeSuffix"), "writer.writeSuffix") IN
    IF k = 1 THEN Ev(s1, "throw")
    ELSE LET s2 == Ev(s1, "writer.flush") IN
         IF k = 2 THEN Ev(s2, "throw")
         ELSE LET s3 == Ev(s2, "write_buf.finalize") IN
              IF k = 3 THEN Ev(s3, "throw")
              ELSE Ev([s3 EXCEPT !.write_buf = "finalized"], "return")

\* The implicit destructor: writer goes first, then write_buf.
DestroyStream(st) ==
    [Ev(Ev(st, "~writer"), "~write_buf") EXCEPT !.life = "dropped", !.writer = "null",
                                                !.write_buf = "released"]

Calls(st) == Count(st.log, "call:write") + Count(st.log, "call:writePrefix")
             + Count(st.log, "call:writeSuffix")

\* ------------------------------------------------------------ registration
\* ctor lists the steps the constructor of the storage went through.
NoStorage ==
    [bound |-> FALSE, uri |-> EmptyURI, format_name |-> "", compression_method |-> "",
     ctor |-> <<>>]

\* The AST nodes a declaration's argument can be.
Strings == {"http://example.test/data.csv", "http://blocked.test/data.csv.gz", "CSV", "gzip"}
ArgSet ==
    {[kind |-> "literal", val |-> v] : v \in Strings}
    \cup {[kind |-> "identifier", val |-> "CSV"],
          [kind |-> "number", val |-> "42"],
          [kind |-> "expression", val |-> "rand()"]}
ArgSeqs == UNION {[1..n -> ArgSet] : n \in 0..MaxArgs}

\* evaluateConstantExpressionOrIdentifierAsLiteral: an identifier becomes the
\* string literal of its name, a constant stays as it is, anything that is not
\* constant makes the evaluator throw.
EvaluateThrows(a) == a.kind = "expression"
evaluateConstantExpressionOrIdentifierAsLiteral(a) ==
    IF a.kind = "identifier" THEN [kind |-> "literal", val |-> a.val] ELSE a

\* ASTLiteral::value.safeGet<String>() succeeds on a String field only.
safeGetOK(a) == a.kind = "literal"

\* RemoteHostFilter::checkURL: the host policy of the server.
HostAllowed(uri) == uri.authority # <<"blocked", ".", "test">>

\* engine_args[i] = evaluate...(engine_args[i]); ... safeGet<String>()
\* (index i is 1-based here, engine_args[i-1] in the source).
BindArg(r, i) ==
    IF r.error # "none" THEN r
    ELSE LET a == r.engine_args[i] IN
         IF EvaluateThrows(a)
         THEN [r EXCEPT !.evaluated = Append(@, i), !.error = "BAD_ARGUMENTS"]
         ELSE LET r1 == [r EXCEPT !.evaluated = Append(@, i),
                                  !.engine_args[i] =
                                      evaluateConstantExpressionOrIdentifierAsLiteral(a)]
              IN IF safeGetOK(r1.engine_args[i]) THEN r1
                 ELSE [r1 EXCEPT !.error = "BAD_GET"]

\* The constructor with the host policy not asked.
IStorageURLBase_NoCheck(r, uri_, format_name_, compression_method_) ==
    [r EXCEPT !.storage = [bound |-> TRUE, uri |-> uri_, format_name |-> format_name_,
                           compression_method |-> compression_method_,
                           ctor |-> <<"setColumns", "setConstraints">>]]

\* IStorageURLBase::IStorageURLBase: the members are set, then the host
\* policy is asked; a rejected locator throws out of the constructor, before
\* setColumns and setConstraints, and no storage object comes to exist.
IStorageURLBase(r, uri_, format_name_, compression_method_) ==
    IF HostAllowed(uri_)
    THEN [r EXCEPT !.storage = [bound |-> TRUE, uri |-> uri_, format_name |-> format_name_,
                                compression_method |-> compression_method_,
                                ctor |-> <<"checkURL", "setColumns", "setConstraints">>]]
    ELSE [r EXCEPT !.error = "UNACCEPTABLE_URL",
                   !.storage = [NoStorage EXCEPT !.ctor = <<"checkURL", "throw">>]]

\* The size check with only the lower limit: a fourth argument is let through.
ArgCountOK_NoUpper(n) == n >= 2

\* if (engine_args.size() != 2 && engine_args.size() != 3) throw ...
ArgCountOK(n) == ~(n # 2 /\ n # 3)

\* The creator function registerStorageURL registers for "URL".
registerStorageURL(args) ==
    LET r0 == [engine_args |-> args, evaluated |-> <<>>, error |-> "none",
               storage |-> NoStorage] IN
    IF ~ArgCountOK(Len(args))
    THEN [r0 EXCEPT !.error = "NUMBER_OF_ARGUMENTS_DOESNT_MATCH"]
    ELSE LET r1 == BindArg(r0, 1)
             r2 == BindArg(r1, 2)
             r3 == IF Len(args) = 3 THEN BindArg(r2, 3) ELSE r2
         IN IF r3.error # "none" THEN r3
            ELSE IStorageURLBase(r3, PocoURI(Text(r3.engine_args[1].val)),
                                 r3.engine_args[2].val,
                                 IF Len(args) = 3 THEN r3.engine_args[3].val ELSE "auto")

\* ------------------------------------------------------- read() and write()
\* What getReadURIParams can return: nothing (the base class), or pairs a
\* subclass appends; a value is a text.
ParamSets == {<<>>, <<[param |-> "format", value |-> <<"b", ".", "gz">>]>>}
StreamHints == 0..MaxStreams

\* for (const auto & [param, value] : params) request_uri.addQueryParameter(param, value);
RECURSIVE AddParams(_, _)
AddParams(uri, params) ==
    IF params = <<>> THEN uri
    ELSE AddParams(addQueryParameter(uri, Head(params).param, Head(params).value),
                   Tail(params))

\* read() that appends the parameters to the member uri itself.
IStorageURLBase_read_InPlace(stor, params, num_streams, response) ==
    LET changed == [stor EXCEPT !.uri = AddParams(@, params)] IN
    [storage |-> changed,
     pipes |-> <<StorageURLSource(changed.uri,
                     chooseCompressionMethod(getPath(changed.uri), stor.compression_method),
                     response)>>]

\* read() that makes one source for each stream asked for.
IStorageURLBase_read_PerStream(stor, params, num_streams, response) ==
    LET request_uri == AddParams(stor.uri, params) IN
    [storage |-> stor,
     pipes |-> [i \in 1..(IF num_streams > 1 THEN num_streams ELSE 1) |->
                   StorageURLSource(request_uri,
                       chooseCompressionMethod(getPath(request_uri), stor.compression_method),
                       response)]]

\* Pipes IStorageURLBase::read(..., unsigned /*num_streams*/): the storage as
\* the call leaves it and the pipes it returns.
IStorageURLBase_read(stor, params, num_streams, response) ==
    LET request_uri == AddParams(stor.uri, params) IN
    [storage |-> stor,
     pipes |-> <<StorageURLSource(request_uri,
                     chooseCompressionMethod(getPath(request_uri), stor.compression_method),
                     response)>>]

\* BlockOutputStreamPtr IStorageURLBase::write(...)
IStorageURLBase_write(stor) ==
    StorageURLBlockOutputStream(stor.uri,
        chooseCompressionMethod(toString(stor.uri), stor.compression_method))

\* ------------------------------------------------------------ actions
\* IStorageURLBase::read is called with parameters from P, a stream hint from
\* N and a response from R; the sources it returns become sessions s, s+1, ...
OpenReadWith(s, P, N, R) ==
    /\ storage.bound
    /\ \E params \in P, num_streams \in N, response \in R :
         LET r == IStorageURLBase_read(storage, params, num_streams, response)
             k == Len(r.pipes)
             call == [params |-> params, num_streams |-> num_streams, pipes |-> k]
         IN /\ \A x \in s..(s + k - 1) : x \in Ids /\ source[x].life = "absent"
            /\ source' = [x \in Ids |->
                             IF x \in s..(s + k - 1)
                             THEN [r.pipes[x - s + 1] EXCEPT !.call = call]
                             ELSE source[x]]
            /\ storage' = r.storage
    /\ UNCHANGED <<decl, engine_args, evaluated, bind_error, out_stream>>

OpenRead(s) == OpenReadWith(s, ParamSets, StreamHints, Responses)

\* A pull with the reader held in common by the sessions: the reset at the
\* end of one session takes the reader of the others away.
Generate_SharedReader(s) ==
    /\ source[s].life = "alive"
    /\ Pulls(source[s]) < MaxPulls
    /\ \E pfx \in Outcome, rd \in Outcome, sfx \in Outcome :
         LET new == generate(source[s], pfx, rd, sfx) IN
         /\ Throws(new) <= MaxThrows
         /\ source' = [x \in Ids |->
                          IF x = s THEN new
                          ELSE IF new.reader = "null"
                               THEN [source[x] EXCEPT !.reader = "null"]
                               ELSE source[x]]
    /\ UNCHANGED <<decl, engine_args, evaluated, bind_error, storage, out_stream>>

\* One pull by the pipeline executor.
Generate(s) ==
    /\ source[s].life = "alive"
    /\ Pulls(source[s]) < MaxPulls
    /\ \E pfx \in Outcome, rd \in Outcome, sfx \in Outcome :
         LET new == generate(source[s], pfx, rd, sfx) IN
         /\ Throws(new) <= MaxThrows
         /\ source' = [source EXCEPT ![s] = new]
    /\ UNCHANGED <<decl, engine_args, evaluated, bind_error, storage, out_stream>>

\* The pipeline drops the source.
DropSource(s) ==
    /\ source[s].life = "alive"
    /\ source' = [source EXCEPT ![s] = DestroySource(@)]
    /\ UNCHANGED <<decl, engine_args, evaluated, bind_error, storage, out_stream>>

\* IStorageURLBase::write: one StorageURLBlockOutputStream is constructed.
OpenWrite(s) ==
    /\ storage.bound
    /\ out_stream[s].life = "absent"
    /\ out_stream' = [out_stream EXCEPT ![s] = IStorageURLBase_write(storage)]
    /\ UNCHANGED <<decl, engine_args, evaluated, bind_error, storage, source>>

WritePrefix(s) ==
    /\ out_stream[s].life = "alive"
    /\ Calls(out_stream[s]) < MaxCalls
    /\ \E o \in Outcome :
         LET new == writePrefix(out_stream[s], o) IN
         /\ Throws(new) <= MaxThrows
         /\ out_stream' = [out_stream EXCEPT ![s] = new]
    /\ UNCHANGED <<decl, engine_args, evaluated, bind_error, storage, source>>

Write(s) ==
    /\ out_stream[s].life = "alive"
    /\ Calls(out_stream[s]) < MaxCalls
    /\ \E o \in Outcome :
         LET new == write(out_stream[s], o) IN
         /\ Throws(new) <= MaxThrows
         /\ out_stream' = [out_stream EXCEPT ![s] = new]
    /\ UNCHANGED <<decl, engine_args, evaluated, bind_error, storage, source>>

WriteSuffix(s) ==
    /\ out_stream[s].life = "alive"
    /\ Calls(out_stream[s]) < MaxCalls
    /\ \E k \in 0..3 :
         LET new == writeSuffix(out_stream[s], k) IN
         /\ Throws(new) <= MaxThrows
         /\ out_stream' = [out_stream EXCEPT ![s] = new]
    /\ UNCHANGED <<decl, engine_args, evaluated, bind_error, storage, source>>

\* The engine drops the output stream.
DropStream(s) ==
    /\ out_stream[s].life = "alive"
    /\ out_stream' = [out_stream EXCEPT ![s] = DestroyStream(@)]
    /\ UNCHANGED <<decl, engine_args, evaluated, bind_error, storage, source>>

\* CREATE TABLE ... ENGINE = URL(args): the factory calls the creator once.
Register ==
    /\ bind_error = "not called"
    /\ \E args \in ArgSeqs :
         LET r == registerStorageURL(args) IN
         /\ decl' = args
         /\ engine_args' = r.engine_args
         /\ evaluated' = r.evaluated
         /\ bind_error' = r.error
         /\ storage' = r.storage
    /\ UNCHANGED <<source, out_stream>>

\* ---------------------------------------------------------- specifications
\* Bind time: nothing is declared yet.
InitBind ==
    /\ decl = <<>>
    /\ engine_args = <<>>
    /\ evaluated = <<>>
    /\ bind_error = "not called"
    /\ storage = NoStorage
    /\ source = [s \in Ids |-> NoSource]
    /\ out_stream = [s \in Ids |-> NoStream]

NextBind == Register

SpecBind == InitBind /\ [][NextBind]_vars

\* Query time: the table URL('http://example.test/data.csv', CSV) is bound.
TableDecl ==
    <<[kind |-> "literal", val |-> "http://example.test/data.csv"],
      [kind |-> "identifier", val |-> "CSV"]>>

InitTable ==
    LET r == registerStorageURL(TableDecl) IN
    /\ decl = TableDecl
    /\ engine_args = r.engine_args
    /\ evaluated = r.evaluated
    /\ bind_error = r.error
    /\ storage = r.storage
    /\ source = [s \in Ids |-> NoSource]
    /\ out_stream = [s \in Ids |-> NoStream]

\* One read session of the table.
NextRead == OpenRead(1) \/ Generate(1) \/ DropSource(1)

SpecRead == InitTable /\ [][NextRead]_vars

\* One write session of the table.
NextWrite == OpenWrite(1) \/ WritePrefix(1) \/ Write(1) \/ WriteSuffix(1) \/ DropStream(1)

SpecWrite == InitTable /\ [][NextWrite]_vars

\* The tables the sessions are opened on: four locators, each declared with
\* the compression method left out ("auto") and with 'gzip'.
Locators ==
    {"http://example.test/data.csv", "http://example.test/data.csv.gz",
     "http://example.test/data.csv.gz?v=1", "http://example.test/export?file=a.gz"}
TableDecls ==
    {<<[kind |-> "literal", val |-> u], [kind |-> "literal", val |-> "CSV"]>> :
        u \in Locators}
    \cup {<<[kind |-> "literal", val |-> u], [kind |-> "literal", val |-> "CSV"],
            [kind |-> "literal", val |-> "gzip"]>> : u \in Locators}

InitTables ==
    \E d \in TableDecls :
        LET r == registerStorageURL(d) IN
        /\ decl = d
        /\ engine_args = r.engine_args
        /\ evaluated = r.evaluated
        /\ bind_error = r.error
        /\ storage = r.storage
        /\ source = [s \in Ids |-> NoSource]
        /\ out_stream = [s \in Ids |-> NoStream]

\* Handler calls made so far on all the sessions.
Steps ==
    Pulls(source[1]) + Pulls(source[2]) + Calls(out_stream[1]) + Calls(out_stream[2])

\* The entry points on every table: read() called twice, with every parameter
\* list and stream hint, write() called once, and the first sessions put to use.
OneBlock == {<<("x" :> "x1")>>}
NextLocator ==
    \/ \E s \in Ids : OpenReadWith(s, ParamSets, StreamHints, OneBlock)
    \/ OpenWrite(1)
    \/ Steps < MaxLocatorSteps /\ Generate(1)
    \/ Steps < MaxLocatorSteps /\ Write(1)

SpecLocator == InitTables /\ [][NextLocator]_vars

\* The responses of the sessions of SpecSessions: an empty one, one of two blocks.
SessionResponses == {<<>>, <<("x" :> "x1"), ("x" :> "x2") @@ ("y" :> "y2")>>}

\* Two read sessions and two write sessions of the table of InitTable, their
\* operations interleaved in every order.
NextSessions ==
    \E s \in Ids :
        \/ OpenReadWith(s, {<<>>}, {1}, SessionResponses)
        \/ OpenWrite(s)
        \/ Steps < MaxSteps /\ Generate(s)
        \/ Steps < MaxSteps /\ WritePrefix(s)
        \/ Steps < MaxSteps /\ Write(s)
        \/ Steps < MaxSteps /\ WriteSuffix(s)

SpecSessions == InitTable /\ [][NextSessions]_vars

\* One read session and one write session of the table of InitTable, each
\* dropped at any point of its life.
NextDrop ==
    \/ OpenReadWith(1, {<<>>}, {1}, SessionResponses)
    \/ OpenWrite(1)
    \/ Steps < MaxSteps /\ Generate(1)
    \/ Steps < MaxSteps /\ WritePrefix(1)
    \/ Steps < MaxSteps /\ Write(1)
    \/ Steps < MaxSteps /\ WriteSuffix(1)
    \/ DropSource(1)
    \/ DropStream(1)

SpecDrop == InitTable /\ [][NextDrop]_vars

\* Bind time followed by the opening of sessions on what was bound.
NextTable ==
    \/ Register
    \/ OpenReadWith(1, {<<>>}, {1}, {<<>>})
    \/ OpenWrite(1)
    \/ DropSource(1)
    \/ DropStream(1)

SpecTable == InitBind /\ [][NextTable]_vars

\* ------------------------------------------------------------- properties
\* The events that end a handler: it returns (a chunk, end-of-sequence,
\* nothing) or an exception leaves it.
Terminators == {"return", "return:chunk", "return:eos", "throw"}

\* The events of the handler call that starts at position i of the log.
Seg(log, i) ==
    LET ends == {j \in i..Len(log) : log[j] \in Terminators} IN
    SubSeq(log, i, CHOOSE j \in ends : \A k \in ends : j <= k)

ReadLog(s) == source[s].log
WriteLog(s) == out_stream[s].log
CodecReads == {"reader.readPrefix", "reader.read", "reader.readSuffix"}

\* C1: once a read session has been pulled, readPrefix has fired exactly once,
\* however many pulls were made, and before the first reader->read().
C1_StartHookOnce ==
    \A s \in Ids :
        Pulls(source[s]) >= 1 =>
            /\ Count(ReadLog(s), "reader.readPrefix") = 1
            /\ \A j \in Idx(ReadLog(s), "reader.read") :
                   \E i \in Idx(ReadLog(s), "reader.readPrefix") : i < j

\* C2: on a read session that has signalled end-of-sequence, readSuffix has
\* fired exactly once, after every chunk returned, and before read_buf is
\* released.
C2_EndHookOnce ==
    \A s \in Ids :
        Count(ReadLog(s), "return:eos") >= 1 =>
            /\ Count(ReadLog(s), "reader.readSuffix") = 1
            /\ \A c \in Idx(ReadLog(s), "return:chunk"),
                  x \in Idx(ReadLog(s), "reader.readSuffix") : c < x
            /\ \A x \in Idx(ReadLog(s), "reader.readSuffix"),
                  r \in Idx(ReadLog(s), "~read_buf") : x < r

\* C3: after a read session has signalled end-of-sequence, every later pull
\* returns end-of-sequence at once: no error, no readPrefix, no read, no
\* readSuffix.
C3_TerminalIdempotent ==
    \A s \in Ids :
        \A i \in Idx(ReadLog(s), "return:eos") :
            \A j \in (i + 1)..Len(ReadLog(s)) :
                /\ ReadLog(s)[j] \in {"call:generate", "return:eos", "~read_buf"}
                /\ ReadLog(s)[j] = "call:generate" =>
                       Seg(ReadLog(s), j) = <<"call:generate", "return:eos">>

\* A session that returned a chunk, was exhausted, and was pulled again twice.
C3_Witness ==
    /\ Count(ReadLog(1), "return:chunk") >= 1
    /\ Count(ReadLog(1), "return:eos") >= 3

\* C4: write() after a completed writeSuffix() raises a lifecycle error and
\* does not hand the block to the codec.
C4_AcceptAfterCloseRejected ==
    \A s \in Ids :
        \A i \in Idx(WriteLog(s), "call:write") :
            (\E c \in 1..(i - 1) : /\ WriteLog(s)[c] = "write_buf.finalize"
                                   /\ WriteLog(s)[c + 1] = "return")
            => Seg(WriteLog(s), i) = <<"call:write", "throw">>

C6_CloseOrder ==
    \A s \in Ids :
        \A i \in Idx(WriteLog(s), "call:writeSuffix") :
            Seg(WriteLog(s), i) \in
                {<<"call:writeSuffix", "writer.writeSuffix", "throw">>,
                 <<"call:writeSuffix", "writer.writeSuffix", "writer.flush", "throw">>,
                 <<"call:writeSuffix", "writer.writeSuffix", "writer.flush",
                   "write_buf.finalize", "throw">>,
                 <<"call:writeSuffix", "writer.writeSuffix", "writer.flush",
                   "write_buf.finalize", "return">>}

\* A block was written, one close failed in flush, a later close completed.
C6_Witness ==
    LET log == WriteLog(1) IN
    /\ Count(log, "writer.write") >= 1
    /\ \E i \in Idx(log, "writer.flush") : log[i + 1] = "throw"
    /\ \E i \in Idx(log, "write_buf.finalize") : log[i + 1] = "return"

\* C7: after a pull has failed, no later pull calls into the codec again.
C7_FailedIsTerminal ==
    \A s \in Ids :
        \A i \in Idx(ReadLog(s), "throw") :
            \A j \in (i + 1)..Len(ReadLog(s)) : ReadLog(s)[j] \notin CodecReads

\* C8: on a read session whose response decodes to no block, the first pull,
\* when the codec does not fail in it, fires readPrefix, reads, fires
\* readSuffix and returns end-of-sequence; and no chunk is ever returned.
C8_EmptyFirstPull ==
    \A s \in Ids :
        (source[s].total = 0 /\ source[s].life # "absent") =>
            /\ Count(ReadLog(s), "return:chunk") = 0
            /\ Pulls(source[s]) >= 1 =>
                  LET first == Seg(ReadLog(s), 2) IN
                  first[Len(first)] # "throw" =>
                      first = <<"call:generate", "reader.readPrefix", "reader.read",
                                "reader.readSuffix", "reader.reset", "return:eos">>

\* The empty response, pulled once.
C8_Witness ==
    /\ source[1].total = 0
    /\ ReadLog(1) = <<"open", "call:generate", "reader.readPrefix", "reader.read",
                      "reader.readSuffix", "reader.reset", "return:eos">>

\* C9: a storage is created only from 2 or 3 arguments; any other count ends
\* in NUMBER_OF_ARGUMENTS_DOESNT_MATCH with no argument evaluated and no
\* storage; 2 arguments give compression_method "auto", 3 give the value of
\* the third.
ArgValue(a) == a.val
C9_ArgCount ==
    bind_error # "not called" =>
        LET n == Len(decl) IN
        /\ storage.bound => (n = 2 \/ n = 3) /\ bind_error = "none"
        /\ (n # 2 /\ n # 3) =>
               /\ bind_error = "NUMBER_OF_ARGUMENTS_DOESNT_MATCH"
               /\ evaluated = <<>>
               /\ engine_args = decl
               /\ ~storage.bound
        /\ (n = 2 \/ n = 3) => bind_error # "NUMBER_OF_ARGUMENTS_DOESNT_MATCH"
        /\ (storage.bound /\ n = 2) => storage.compression_method = "auto"
        /\ (storage.bound /\ n = 3) => storage.compression_method = ArgValue(decl[3])

\* URL(locator, CSV, 'gzip') is bound with the third argument as the method.
C9_Witness ==
    /\ Len(decl) = 3
    /\ storage.bound
    /\ storage.compression_method = "gzip"
    /\ storage.format_name = "CSV"

\* C10: once a read session has signalled end-of-sequence, its read_buf is no
\* longer open and no chunk is returned any more.
C10_TransportReleasedAtEos ==
    \A s \in Ids :
        \A i \in Idx(ReadLog(s), "return:eos") :
            /\ source[s].read_buf # "open"
            /\ \A j \in (i + 1)..Len(ReadLog(s)) : ReadLog(s)[j] # "return:chunk"

\* The locator the table was declared with, and the method its path gives.
DeclaredURI == PocoURI(Text(ArgValue(decl[1])))
MethodOfPath(uri) ==
    IF uri.path # <<>> /\ Len(uri.path) >= 2
       /\ SubSeq(uri.path, Len(uri.path) - 1, Len(uri.path)) = <<".", "gz">>
    THEN "gzip"
    ELSE "none"
Opened(st) == st.life # "absent"

\* C11: on a table whose compression policy is 'auto', every read session and
\* every write session has the method given by the suffix of the locator's
\* path (gzip for a path ending in .gz, none without a known suffix), so the
\* two kinds of session of one table have the same method.
C11_MethodFromPathSuffix ==
    storage.compression_method = "auto" =>
        \A s \in Ids :
            /\ Opened(source[s]) =>
                   source[s].compression_method = MethodOfPath(storage.uri)
            /\ Opened(out_stream[s]) =>
                   out_stream[s].compression_method = MethodOfPath(storage.uri)

\* C12: read() leaves the stored locator as the declaration gave it; the
\* locator of each read session is the stored one with that call's parameters
\* only, and the locator of a write session is the stored one.
C12_StoredLocatorUnchanged ==
    /\ storage.uri = DeclaredURI
    /\ \A s \in Ids :
           /\ Opened(source[s]) =>
                  source[s].uri = AddParams(DeclaredURI, source[s].call.params)
           /\ Opened(out_stream[s]) => out_stream[s].uri = DeclaredURI

\* Two read() calls with parameters, then a write().
C12_Witness ==
    /\ source[1].call.params # <<>>
    /\ source[2].call.params # <<>>
    /\ Opened(out_stream[1])
    /\ storage.uri.query # <<>>

\* C13: a locator the host policy rejects makes the constructor throw at
\* checkURL, before setColumns and setConstraints; no storage exists then, and
\* a session is only ever opened on a storage whose host is allowed.
C13_RejectedHostBindsNothing ==
    /\ bind_error = "UNACCEPTABLE_URL" =>
           ~storage.bound /\ storage.ctor = <<"checkURL", "throw">>
    /\ storage.bound =>
           /\ HostAllowed(storage.uri)
           /\ storage.ctor = <<"checkURL", "setColumns", "setConstraints">>
    /\ \A s \in Ids :
           (Opened(source[s]) \/ Opened(out_stream[s])) =>
               storage.bound /\ HostAllowed(storage.uri)

\* URL('http://blocked.test/data.csv.gz', CSV) was declared and refused.
C13_Witness ==
    /\ bind_error = "UNACCEPTABLE_URL"
    /\ Len(decl) = 2
    /\ ~HostAllowed(DeclaredURI)

\* C14: the k-th chunk a read session returns is the k-th decoded block with
\* every requested column in it: the decoded columns as decoded, the others
\* with their default.
C14_ReturnedChunksBackfilled ==
    \A s \in Ids :
        /\ Len(source[s].returned) = Count(ReadLog(s), "return:chunk")
        /\ \A k \in 1..Len(source[s].returned) :
               LET chunk == source[s].returned[k]
                   decoded == source[s].response[k]
               IN /\ DOMAIN chunk = Columns
                  /\ \A c \in DOMAIN decoded : chunk[c] = decoded[c]
                  /\ \A c \in Columns \ DOMAIN decoded : chunk[c] = DefaultValue(c)

\* A block without y and a block with both columns were returned.
C14_Witness ==
    /\ Len(source[1].returned) = 2
    /\ DOMAIN source[1].response[1] = {"x"}
    /\ DOMAIN source[1].response[2] = Columns

\* C15: whatever num_streams is, the read() call that made a session returned
\* exactly one pipe.
C15_OnePipe ==
    \A s \in Ids : Opened(source[s]) => source[s].call.pipes = 1

\* One read() call asked for no stream, another for two.
C15_Witness ==
    /\ Opened(source[1]) /\ source[1].call.num_streams = 0
    /\ Opened(source[2]) /\ source[2].call.num_streams = 2

\* C16: a step changes at most one session, the one whose operation it is (its
\* log grows); a read session is terminal only by its own exhaustion and a
\* write session finalized only by its own close.
OneSessionChanges ==
    \A s \in Ids :
        /\ source'[s] # source[s] =>
               /\ Len(source'[s].log) > Len(source[s].log)
               /\ \A x \in Ids \ {s} : source'[x] = source[x]
               /\ out_stream' = out_stream
        /\ out_stream'[s] # out_stream[s] =>
               /\ Len(out_stream'[s].log) > Len(out_stream[s].log)
               /\ \A x \in Ids \ {s} : out_stream'[x] = out_stream[x]
               /\ source' = source
TerminalByOwnOperation ==
    \A s \in Ids :
        /\ (source[s].life = "alive" /\ source[s].reader = "null") =>
               Count(ReadLog(s), "reader.reset") = 1
        /\ source[s].initialized => Count(ReadLog(s), "reader.readPrefix") >= 1
        /\ out_stream[s].write_buf = "finalized" =>
               Count(WriteLog(s), "write_buf.finalize") >= 1
C16_SessionsIndependent == [][OneSessionChanges]_vars /\ []TerminalByOwnOperation

\* Session 1 is exhausted, session 2 has returned a chunk and is not terminal,
\* and a write session is open beside them.
C16_Witness ==
    /\ Count(ReadLog(1), "return:eos") = 1
    /\ Count(ReadLog(2), "return:chunk") = 1
    /\ source[2].reader = "set"
    /\ out_stream[1].write_buf = "open"

\* C17: on a write session the codec's writeSuffix fires at most once and
\* write_buf is finalized at most once, whatever calls are made.
C17_EndHookAtMostOnce ==
    \A s \in Ids :
        /\ Count(WriteLog(s), "writer.writeSuffix") <= 1
        /\ Count(WriteLog(s), "write_buf.finalize") <= 1

\* C18: a dropped session holds no open transport handle: its destructor
\* released read_buf / write_buf as its last step, whatever state it was in.
C18_DroppedSessionReleased ==
    \A s \in Ids :
        /\ source[s].life = "dropped" =>
               /\ source[s].read_buf = "released"
               /\ ReadLog(s)[Len(ReadLog(s))] = "~read_buf"
        /\ out_stream[s].life = "dropped" =>
               /\ out_stream[s].write_buf = "released"
               /\ WriteLog(s)[Len(WriteLog(s))] = "~write_buf"
        /\ source[s].read_buf = "open" => source[s].life = "alive"
        /\ out_stream[s].write_buf \in {"open", "finalized"} => out_stream[s].life = "alive"

\* A read session dropped in mid-stream and a write session dropped after a
\* failed write, never closed.
C18_Witness ==
    /\ source[1].life = "dropped"
    /\ Count(ReadLog(1), "return:chunk") = 1
    /\ Count(ReadLog(1), "~reader") = 1
    /\ out_stream[1].life = "dropped"
    /\ Count(WriteLog(1), "throw") = 1
    /\ Count(WriteLog(1), "write_buf.finalize") = 0

====
